---- MODULE Spec2Model ----
(***************************************************************************)
(* The RAG decision-flow engine of rocs-copilot: the Workflow engine       *)
(* (tools/rag/workflow.py, tools/rag/base_workflow.py), its retriever tool *)
(* (tools/rag/create_retriever.py) and the runs started by invoke_chat     *)
(* and stream_chat.                                                        *)
(*                                                                         *)
(* The text-generation capability, the retriever backend and the grading   *)
(* judgement are external: every call of them is a nondeterministic choice *)
(* over the outcomes the call can have (a response, or a raised error).    *)
(***************************************************************************)
EXTENDS Integers, Sequences, FiniteSets, TLC

\* ------------------------------------------------------------------ bounds
\* supersteps recorded in one run
MaxSteps == 6
\* tool-call requests one assistant turn can carry
MaxToolCalls == 2
\* Retriever objects constructed in one behaviour
MaxInits == 1
\* turns kept by the cyclic abstraction used for liveness (LiveSpec)
Window == 3
\* concurrent callers of save_documents
MaxWriters == 2
\* entries of the source list given to one load_docs call
MaxSources == 2
\* the largest k asked of retrieve_context
MaxK == 2

\* ------------------------------------------------------------- vocabulary
None == 0
START == "__start__"
END == "__end__"
Idle == "idle"

NodeNames == {"generate_query_or_respond", "retrieve", "rewrite_question", "generate_answer"}

\* contents a retriever tool call can return (create_retriever.py:100-112):
\* the formatted documents (or the text "No relevant documents found.": a
\* plain string as well, not told apart here), or the text of the caught error
DocsText == "Document 1"
ErrorText == "Error retrieving documents"

\* contents of a text-generation response: opaque, it may or may not
\* mention an error
LLMContents == {"reply", "reports_error"}

\* a turn: tool_calls is the number of tool-call requests an assistant turn
\* carries, tool_call_id the request a tool-result turn answers
HumanMessage(c) == [role |-> "user", content |-> c, tool_calls |-> 0, tool_call_id |-> 0]

AIMessage(c, n) == [role |-> "assistant", content |-> c, tool_calls |-> n, tool_call_id |-> 0]

ToolMessage(c, id) == [role |-> "tool", content |-> c, tool_calls |-> 0, tool_call_id |-> id]

\* the histories a caller passes to invoke_chat / stream_chat
Histories == { <<HumanMessage("q1")>>, <<HumanMessage("q1"), AIMessage("reply", 0), HumanMessage("q2")>> }

Last(s) == s[Len(s)]

IsPrefix(s, t) == Len(s) <= Len(t) /\ SubSeq(t, 1, Len(s)) = s

\* The engine (the Workflow singleton):
\*   retriever       _retriever: None, or the number of the Retriever object
\*   tools           _tools["retriever_tool"]: the retriever tools appended so far
\*   llm_with_tools  _llm_with_tools: Unbound, or the model bound to a tool list
\*   workflow_graph  _workflow_graph: None, or the retriever whose tool the
\*                   compiled graph's ToolNode holds
\*   lastInit        outcome and result of the most recent initialize call
\*   lastBuild       result of the most recent build_graph call
\* One call of invoke_chat / stream_chat (the DecisionFlowState):
\*   pc              Idle, START (refused), the node about to run, or END
\*   mode, input     the kind of call and the messages it was given
\*   turns           state["messages"]
\*   path            the nodes executed, with the size of each update, the
\*                   grade a retrieve step was given and the question a
\*                   rewrite_question or generate_answer step used
\*   yielded         the (node, message) pairs stream_chat has yielded
\*   error           "none", or the exception that left the call
\*   llmCalls        calls of the text-generation capability made by the nodes
\*   llmFailed       one of these calls raised
\*   runInit         lastInit.outcome when the call started
\*   live            FALSE under Spec, TRUE under LiveSpec (see Kept)
VARIABLES retriever, tools, llm_with_tools, workflow_graph, lastInit, lastBuild, pc, mode, input, turns, path, yielded, error, llmCalls, llmFailed, runInit, live

\* The document cache, the ingestion pipeline and the retriever index:
\*   cache           the rows of the document_cache table
\*   writers         the save_documents calls in flight, one per writer
\*   job             the load_docs call in flight (or the last one): the
\*                   loader's settings, the length of source_document_files,
\*                   the items still to load, the documents so far, and
\*                   what each load_doc call did
\*   produced        the chunks the ingestions with caching enabled have
\*                   produced and written back, by source and chunking
\*                   parameters, up to the next clear_cache of the source
\*   hits            the Retriever built from the loaded documents: its vector
\*                   store, the last retrieve_context call and what it returned
VARIABLES cache, writers, job, produced, hits

ingestVars == <<cache, writers, job, produced, hits>>

engineVars == <<retriever, tools, llm_with_tools, workflow_graph, lastInit, lastBuild>>

runVars == <<pc, mode, input, turns, path, yielded, error, llmCalls, llmFailed, runInit>>

vars == <<retriever, tools, llm_with_tools, workflow_graph, lastInit, lastBuild, pc, mode, input, turns, path, yielded, error, llmCalls, llmFailed, runInit, live, cache, writers, job, produced, hits>>

\* --------------------------------------------------------- graph structure
\* MessagesState: the "messages" channel is reduced with add_messages, which
\* appends the update of a node to the turns already there.
add_messages_Overwrite(left, right) == right

add_messages(left, right) == left \o right

\* add_edge(START, "generate_query_or_respond")
StartEdge == "generate_query_or_respond"

\* tools_condition: "tools" iff the last turn is an assistant turn carrying
\* at least one tool-call request, END otherwise.
tools_condition_Always(messages) == "tools"

tools_condition(messages) == IF Last(messages).role = "assistant" /\ Last(messages).tool_calls > 0 THEN "tools" ELSE END

\* the path map of the conditional edge out of generate_query_or_respond
AskEdge_Swapped(branch) == IF branch = "tools" THEN END ELSE "retrieve"

AskEdge(branch) == IF branch = "tools" THEN "retrieve" ELSE END

\* grade_documents: the conditional edge out of "retrieve" names the next node
grade_documents_Capped(relevant) == IF relevant \/ Len(path) >= 3 THEN "generate_answer" ELSE "rewrite_question"

grade_documents(relevant) == IF relevant THEN "generate_answer" ELSE "rewrite_question"

\* add_edge("generate_answer", END)
AnswerEdge_Loop == "generate_query_or_respond"

AnswerEdge == END

\* add_edge("rewrite_question", "generate_query_or_respond")
RewriteEdge_ToAnswer == "generate_answer"

RewriteEdge == "generate_query_or_respond"

\* ------------------------------------------------- the cyclic abstraction
\* Under LiveSpec (live = TRUE) a run keeps its first turn and its last
\* Window - 1 turns and records no history: the nodes read only the first
\* and the last turn, so the control flow is the one of the unbounded run.
Kept(s) == IF live /\ Len(s) > Window THEN <<s[1]>> \o SubSeq(s, Len(s) - Window + 2, Len(s)) ELSE s

Rec(s, x) == IF live THEN s ELSE Append(s, x)

Count(n) == IF live THEN n ELSE n + 1

CanStep == live \/ Len(path) < MaxSteps

\* what stream_chat yields for one chunk: the node and the LAST message of
\* the node's update
StreamYield_First(node, update) == <<node, update[1]>>

StreamYield(node, update) == <<node, update[Len(update)]>>

Yield(node, update) == IF mode = "stream" /\ update # <<>> THEN Rec(yielded, StreamYield(node, update)) ELSE yielded

\* _llm_with_tools: None until bind_tools succeeded, then the model bound to
\* the tools it was given
Unbound == [bound |-> FALSE, tools |-> <<>>]

bind_tools(ts) == [bound |-> TRUE, tools |-> ts]

\* a run is in flight: a node is about to execute
Running == pc \in NodeNames /\ error = "none"

\* the run has ended: with its result at END, or with a raised error
Finished == pc = END \/ error # "none"

\* no finished call is waiting to hand its result (or error) to its caller
NoResultHeld == pc = Idle \/ Running

\* ------------------------------------------------------------------- Init
InitEngine ==
    /\ retriever = None
    /\ tools = <<>>
    /\ llm_with_tools = Unbound
    /\ workflow_graph = None
    /\ lastInit = [outcome |-> "never", result |-> "none"]
    /\ lastBuild = "never"

InitRun ==
    /\ pc = Idle
    /\ mode = "none"
    /\ input = <<>>
    /\ turns = <<>>
    /\ path = <<>>
    /\ yielded = <<>>
    /\ error = "none"
    /\ llmCalls = 0
    /\ llmFailed = FALSE
    /\ runInit = "never"

\* no save_documents call in flight
IdleWriter == [pc |-> "idle", source_path |-> "", documents |-> <<>>, chunk_size |-> 0, chunk_overlap |-> 0, found |-> "none", result |-> "none"]

\* no load_docs call made yet
IdleJob == [status |-> "idle", loader |-> "none", chunk_size |-> 0, chunk_overlap |-> 0, use_cache |-> FALSE, listed |-> 0, todo |-> {}, documents |-> <<>>, done |-> {}]

\* no Retriever constructed, no retrieve_context call made
NoSearch == [built |-> FALSE, store |-> <<>>, called |-> FALSE, k |-> 0, failed |-> FALSE, docs |-> <<>>]

\* an empty document_cache table, nothing in flight
InitIngest ==
    /\ cache = {}
    /\ writers = [w \in 1..MaxWriters |-> IdleWriter]
    /\ job = IdleJob
    /\ produced = {}
    /\ hits = NoSearch

Init == InitEngine /\ InitRun /\ live = FALSE /\ InitIngest

InitLive == InitEngine /\ InitRun /\ live = TRUE /\ InitIngest

\* ------------------------------------------------------------- initialize
\* The step at which one initialize call fails, or "ok".
InitOutcomes == {"empty_sources", "no_chunks", "retriever_ctor_fails", "tool_creation_fails", "bind_fails", "ok"}

\* does initialize raise to its caller for this outcome
InitResult_Swallow(outcome) == IF outcome \in {"ok", "empty_sources"} THEN "ok" ELSE IF outcome \in {"no_chunks", "tool_creation_fails"} THEN "ValueError" ELSE "Exception"

InitResult(outcome) == IF outcome = "ok" THEN "ok" ELSE IF outcome \in {"empty_sources", "no_chunks", "tool_creation_fails"} THEN "ValueError" ELSE "Exception"

\* Retriever objects are numbered in the order they are constructed; an
\* engine constructs at most `max` of them.
InitializeWithin(max, outcome) ==
    /\ NoResultHeld
    /\ outcome \in {"tool_creation_fails", "bind_fails", "ok"} => retriever < max
    /\ lastInit' = [outcome |-> outcome, result |-> InitResult(outcome)]
    /\ retriever' = IF outcome \in {"tool_creation_fails", "bind_fails", "ok"} THEN retriever + 1 ELSE retriever
    /\ tools' = IF outcome \in {"bind_fails", "ok"} THEN Append(tools, retriever + 1) ELSE tools
    /\ llm_with_tools' = IF outcome = "ok" THEN bind_tools(tools') ELSE llm_with_tools
    /\ UNCHANGED <<workflow_graph, lastBuild, live>>
    /\ UNCHANGED ingestVars
    /\ UNCHANGED runVars

Initialize(outcome) == InitializeWithin(MaxInits, outcome)

\* ------------------------------------------------------------ build_graph
\* what build_graph hands to its caller: ValueError when there is no
\* retriever or the retriever gives no tool, else the graph is compiled
build_graph_Lenient(r, toolOk) == IF ~toolOk THEN "ValueError" ELSE "ok"

build_graph(r, toolOk) == IF r = None THEN "ValueError" ELSE IF ~toolOk THEN "ValueError" ELSE "ok"

BuildGraph(toolOk) ==
    /\ NoResultHeld
    /\ lastBuild' = build_graph(retriever, toolOk)
    /\ workflow_graph' = IF lastBuild' = "ok" THEN retriever ELSE workflow_graph
    /\ UNCHANGED <<retriever, tools, llm_with_tools, lastInit, live>>
    /\ UNCHANGED ingestVars
    /\ UNCHANGED runVars

\* ------------------------------------------------- invoke_chat, stream_chat
StartRun(m, messages) ==
    /\ pc = Idle
    /\ mode' = m
    /\ input' = messages
    /\ turns' = messages
    /\ path' = <<>>
    /\ yielded' = <<>>
    /\ llmCalls' = 0
    /\ llmFailed' = FALSE
    /\ runInit' = lastInit.outcome
    /\ IF workflow_graph = None
         THEN pc' = START /\ error' = "ValueError"
         ELSE pc' = StartEdge /\ error' = "none"
    /\ UNCHANGED engineVars
    /\ UNCHANGED live
    /\ UNCHANGED ingestVars

InvokeChat(messages) == StartRun("invoke", messages)

StreamChat(messages) == StartRun("stream", messages)

\* ------------------------------------------------------------------ nodes
\* the node at pc raised: its update is not applied and the error leaves the
\* run (pc stays at the node that raised, error names what was raised)
Raise(kind) ==
    /\ error' = kind
    /\ UNCHANGED <<pc, mode, input, turns, path, yielded, runInit>>

\* the question rewrite_question and generate_answer put into their prompt:
\* messages[0].content
question_of_Latest(messages) == Last(SelectSeq(messages, LAMBDA t : t.role = "user")).content

question_of(messages) == messages[1].content

\* a node returned `update`: the reducer applies it, the chunk is yielded in
\* stream mode, and the outgoing edge picks the next node from the new state
Apply(node, update, grade, question, next) ==
    /\ turns' = Kept(add_messages(turns, update))
    /\ path' = Rec(path, [node |-> node, n |-> Len(update), grade |-> grade, question |-> question])
    /\ yielded' = Yield(node, update)
    /\ pc' = next
    /\ UNCHANGED <<mode, input, error, runInit>>

GenerateQueryOrRespond ==
    /\ pc = "generate_query_or_respond"
    /\ error = "none"
    /\ CanStep
    /\ IF ~llm_with_tools.bound
         THEN Raise("AttributeError") /\ UNCHANGED <<llmCalls, llmFailed>>
         ELSE /\ llmCalls' = Count(llmCalls)
              /\ \/ Raise("CapabilityError") /\ llmFailed' = TRUE
                 \/ /\ UNCHANGED llmFailed
                    /\ \E n \in 0..MaxToolCalls : \E c \in LLMContents :
                         /\ n > 0 => c = "reply"
                         /\ LET response == AIMessage(c, n)
                            IN Apply("generate_query_or_respond", <<response>>, "-", "-", AskEdge(tools_condition(add_messages(turns, <<response>>))))
    /\ UNCHANGED engineVars
    /\ UNCHANGED live
    /\ UNCHANGED ingestVars

\* the results the retriever tool can give: the calls of one Retrieve step
\* reach the same backend, and either it answers them or it raises on them
ToolOutcomes == {DocsText, ErrorText}

Retrieve ==
    /\ pc = "retrieve"
    /\ error = "none"
    /\ CanStep
    /\ \E result \in ToolOutcomes : \E relevant \in BOOLEAN :
         LET update == [i \in 1..Last(turns).tool_calls |-> ToolMessage(result, i)]
         IN Apply("retrieve", update, IF relevant THEN "relevant" ELSE "not_relevant", "-", grade_documents(relevant))
    /\ UNCHANGED <<llmCalls, llmFailed>>
    /\ UNCHANGED engineVars
    /\ UNCHANGED live
    /\ UNCHANGED ingestVars

RewriteQuestion ==
    /\ pc = "rewrite_question"
    /\ error = "none"
    /\ CanStep
    /\ llmCalls' = Count(llmCalls)
    /\ \/ Raise("CapabilityError") /\ llmFailed' = TRUE
       \/ /\ UNCHANGED llmFailed
          /\ Apply("rewrite_question", <<HumanMessage("rewritten")>>, "-", question_of(turns), RewriteEdge)
    /\ UNCHANGED engineVars
    /\ UNCHANGED live
    /\ UNCHANGED ingestVars

GenerateAnswer ==
    /\ pc = "generate_answer"
    /\ error = "none"
    /\ CanStep
    /\ llmCalls' = Count(llmCalls)
    /\ \/ Raise("CapabilityError") /\ llmFailed' = TRUE
       \/ /\ UNCHANGED llmFailed
          /\ \E c \in LLMContents : Apply("generate_answer", <<AIMessage(c, 0)>>, "-", question_of(turns), AnswerEdge)
    /\ UNCHANGED engineVars
    /\ UNCHANGED live
    /\ UNCHANGED ingestVars

\* invoke_chat returns its result (stream_chat is exhausted, or the error
\* reaches the caller): the state of the run is dropped with the call
Return ==
    /\ Finished
    /\ pc' = Idle
    /\ mode' = "none"
    /\ input' = <<>>
    /\ turns' = <<>>
    /\ path' = <<>>
    /\ yielded' = <<>>
    /\ error' = "none"
    /\ llmCalls' = 0
    /\ llmFailed' = FALSE
    /\ runInit' = "never"
    /\ UNCHANGED engineVars
    /\ UNCHANGED live
    /\ UNCHANGED ingestVars

RunStep == GenerateQueryOrRespond \/ Retrieve \/ RewriteQuestion \/ GenerateAnswer

Next ==
    \/ \E o \in InitOutcomes : Initialize(o)
    \/ \E ok \in BOOLEAN : BuildGraph(ok)
    \/ \E h \in Histories : InvokeChat(h)
    \/ \E h \in Histories : StreamChat(h)
    \/ GenerateQueryOrRespond
    \/ Retrieve
    \/ RewriteQuestion
    \/ GenerateAnswer
    \/ Return

Spec == Init /\ [][Next]_vars

\* The graph runner executes the next node as long as there is one.
LiveSpec == InitLive /\ [][Next]_vars /\ WF_vars(RunStep)

\* The engine as the RAG routes use it: every request initializes the one
\* engine again, so a second Retriever is constructed while the engine is in
\* use; the requests carry a single question, and the run is followed through
\* its window of turns (live = TRUE), however long it gets.
Questions == {<<HumanMessage("q1")>>}

EngineNext ==
    \/ \E o \in InitOutcomes : InitializeWithin(MaxInits + 1, o)
    \/ \E ok \in BOOLEAN : BuildGraph(ok)
    \/ \E h \in Questions : InvokeChat(h)
    \/ \E h \in Questions : StreamChat(h)
    \/ GenerateQueryOrRespond
    \/ Retrieve
    \/ RewriteQuestion
    \/ GenerateAnswer
    \/ Return

EngineSpec == InitLive /\ [][EngineNext]_vars

\* ------------------------------------------------------ the document cache
\* a LangChain Document, and the JSON dict it is stored as
Document(content, metadata) == [type |-> "Document", page_content |-> content, metadata |-> metadata]

serialize_documents(documents) == [i \in 1..Len(documents) |-> [page_content |-> documents[i].page_content, metadata |-> documents[i].metadata]]

deserialize_documents(serialized) == [i \in 1..Len(serialized) |-> Document(serialized[i].page_content, serialized[i].metadata)]

\* the string that is hashed: f"{source_path}:{chunk_size}:{chunk_overlap}"
hash_input_Glued(source_path, chunk_size, chunk_overlap) == source_path \o ToString(chunk_size) \o ToString(chunk_overlap)

hash_input(source_path, chunk_size, chunk_overlap) == source_path \o ":" \o ToString(chunk_size) \o ":" \o ToString(chunk_overlap)

\* hashlib.sha256(...).hexdigest(), taken to be collision-free: the digest
\* stands for the string that was hashed
sha256(s) == <<"sha256", s>>

generate_source_hash(source_path, chunk_size, chunk_overlap) == sha256(hash_input(source_path, chunk_size, chunk_overlap))

\* cls.query.filter(cls.source_hash == source_hash)
RowsOf(table, source_hash) == {r \in table : r.source_hash = source_hash}

\* what get_cached_documents hands back: None (found = FALSE), or the
\* documents of the row; raised = TRUE if the call raises to its caller
NoDocuments == [found |-> FALSE, documents |-> <<>>, raised |-> FALSE]

LookupRaises == [found |-> FALSE, documents |-> <<>>, raised |-> TRUE]

\* storageOk = FALSE: the query (or the deserialisation) raised inside the try
get_cached_documents_Raises(table, source_path, chunk_size, chunk_overlap, storageOk) ==
    LET rows == RowsOf(table, generate_source_hash(source_path, chunk_size, chunk_overlap))
    IN IF ~storageOk THEN LookupRaises
       ELSE IF rows = {} THEN NoDocuments
       ELSE [found |-> TRUE, documents |-> deserialize_documents((CHOOSE r \in rows : TRUE).split_documents), raised |-> FALSE]

get_cached_documents(table, source_path, chunk_size, chunk_overlap, storageOk) ==
    LET rows == RowsOf(table, generate_source_hash(source_path, chunk_size, chunk_overlap))
    IN IF ~storageOk THEN NoDocuments
       ELSE IF rows = {} THEN NoDocuments
       ELSE [found |-> TRUE, documents |-> deserialize_documents((CHOOSE r \in rows : TRUE).split_documents), raised |-> FALSE]

\* the record save_documents creates
Row(source_path, documents, chunk_size, chunk_overlap) == [source_hash |-> generate_source_hash(source_path, chunk_size, chunk_overlap), source_path |-> source_path, split_documents |-> serialize_documents(documents), document_count |-> Len(documents), chunk_size |-> chunk_size, chunk_overlap |-> chunk_overlap]

\* save_documents, the existence check: "row" if the query found a record
SaveFound(table, source_path, chunk_size, chunk_overlap) == IF RowsOf(table, generate_source_hash(source_path, chunk_size, chunk_overlap)) # {} THEN "row" ELSE "none"

\* save_documents, the commit: an UPDATE of the record found (which fails if
\* the record has been deleted since), or an INSERT (which the unique index
\* on source_hash refuses if a record with the key has appeared since)
SaveOutcome(table, found, source_path, chunk_size, chunk_overlap) ==
    IF found = "row" THEN "ok"
    ELSE IF found = "deleted" THEN "StaleDataError"
    ELSE IF RowsOf(table, generate_source_hash(source_path, chunk_size, chunk_overlap)) # {} THEN "IntegrityError"
    ELSE "ok"

\* the table after a commit that succeeded
Upsert_Insert(table, found, source_path, documents, chunk_size, chunk_overlap) == table \cup {Row(source_path, documents, chunk_size, chunk_overlap)}

Upsert(table, found, source_path, documents, chunk_size, chunk_overlap) ==
    LET h == generate_source_hash(source_path, chunk_size, chunk_overlap)
    IN IF found = "row"
         THEN {IF r.source_hash = h THEN [r EXCEPT !.split_documents = serialize_documents(documents), !.document_count = Len(documents), !.chunk_size = chunk_size, !.chunk_overlap = chunk_overlap] ELSE r : r \in table}
         ELSE table \cup {Row(source_path, documents, chunk_size, chunk_overlap)}

\* the optional argument of clear_cache: <<>> for None, <<s>> for the string s
NoSource == <<>>

\* "if source_path:" is false for None and for the empty string
Falsy(arg) == arg = NoSource \/ arg = <<"">>

clear_cache_Nothing(table, arg) == table

clear_cache(table, arg) == IF Falsy(arg) THEN {} ELSE {r \in table : r.source_path # arg[1]}

\* the sources, documents and chunking parameters of the direct callers of
\* save_documents and clear_cache
Cfgs == {<<1000, 200>>, <<500, 200>>}

D1 == Document("one", [source |-> "w"])

D2 == Document("two", [source |-> "w"])

\* a source whose identifier contains ':'
URL == "http://h:80/P"

PutSources == {URL}

PutDocs == {<<D1>>, <<D2, D1>>}

ClearArgs == {NoSource, <<"">>, <<"/docs/A.pdf">>, <<URL>>}

\* no load_docs call is using the cache, no loader holds documents and no
\* Retriever is held
NoJob == job.status = "idle" /\ ~hits.built

\* save_documents, up to the existence check
SaveQuery(w, source_path, documents, cfg) ==
    /\ NoJob
    /\ writers[w] = IdleWriter
    /\ writers' = [writers EXCEPT ![w] = [pc |-> "queried", source_path |-> source_path, documents |-> documents, chunk_size |-> cfg[1], chunk_overlap |-> cfg[2], found |-> SaveFound(cache, source_path, cfg[1], cfg[2]), result |-> "none"]]
    /\ UNCHANGED <<cache, job, produced, hits>>
    /\ UNCHANGED <<engineVars, runVars, live>>

\* save_documents, from the existence check to the commit (or the rollback)
SaveCommit(w, storageOk) ==
    /\ writers[w].pc = "queried"
    /\ LET me == writers[w]
           outcome == IF storageOk THEN SaveOutcome(cache, me.found, me.source_path, me.chunk_size, me.chunk_overlap) ELSE "StorageError"
       IN /\ cache' = IF outcome = "ok" THEN Upsert(cache, me.found, me.source_path, me.documents, me.chunk_size, me.chunk_overlap) ELSE cache
          /\ writers' = [writers EXCEPT ![w] = [me EXCEPT !.pc = "done", !.result = outcome]]
    /\ UNCHANGED <<job, produced, hits>>
    /\ UNCHANGED <<engineVars, runVars, live>>

\* the caller of save_documents has its record, or its exception
SaveReturn(w) ==
    /\ writers[w].pc = "done"
    /\ writers' = [writers EXCEPT ![w] = IdleWriter]
    /\ UNCHANGED <<cache, job, produced, hits>>
    /\ UNCHANGED <<engineVars, runVars, live>>

\* clear_cache(source_path): a failure is rolled back and raised
Invalidate(arg, storageOk) ==
    /\ NoJob
    /\ cache' = IF storageOk THEN clear_cache(cache, arg) ELSE cache
    /\ writers' = [w \in DOMAIN writers |-> IF writers[w].pc = "queried" /\ writers[w].found = "row" /\ RowsOf(cache', generate_source_hash(writers[w].source_path, writers[w].chunk_size, writers[w].chunk_overlap)) = {} THEN [writers[w] EXCEPT !.found = "deleted"] ELSE writers[w]]
    /\ produced' = IF ~storageOk THEN produced ELSE IF Falsy(arg) THEN {} ELSE {q \in produced : q.item[2] # arg[1]}
    /\ UNCHANGED <<job, hits>>
    /\ UNCHANGED <<engineVars, runVars, live>>

\* ------------------------------------------------- the ingestion pipeline
\* The file system the loaders see; the working directory is "/". The source
\* "gone.txt" does not exist, and no extractor takes its format.
Inputs == {"/docs", "docs/A.pdf", URL, "gone.txt"}

\* Path(p).resolve()
resolve(p) == IF p \in {"docs/A.pdf", "/docs/A.pdf"} THEN "/docs/A.pdf" ELSE IF p = "gone.txt" THEN "/gone.txt" ELSE IF p = URL THEN "/http:/h:80/P" ELSE p

is_dir(p) == p \in {"/docs", "/docs/old"}

is_file(p) == p \in {"/docs/A.pdf", "/docs/talk.mp3"}

\* src_path.iterdir(): the members of a directory, a subdirectory among them
iterdir(p) == IF p = "/docs" THEN <<"/docs/A.pdf", "/docs/old", "/docs/talk.mp3">> ELSE <<>>

\* an entry of source_document_files: a Path object, or the str it was given as
PathItem(p) == <<"Path", p>>

StrItem(p) == <<"str", p>>

\* str(file_path)
str(item) == item[2]

\* what one entry of the source list contributes to source_document_files
ExpandOne_Unresolved(src_pth) ==
    LET src_path == resolve(src_pth)
    IN IF is_dir(src_path) THEN [i \in 1..Len(SelectSeq(iterdir(src_path), is_file)) |-> PathItem(SelectSeq(iterdir(src_path), is_file)[i])]
       ELSE <<StrItem(src_pth)>>

ExpandOne(src_pth) ==
    LET src_path == resolve(src_pth)
    IN IF is_dir(src_path) THEN [i \in 1..Len(SelectSeq(iterdir(src_path), is_file)) |-> PathItem(SelectSeq(iterdir(src_path), is_file)[i])]
       ELSE IF is_file(src_path) THEN <<PathItem(src_path)>>
       ELSE <<StrItem(src_pth)>>

RECURSIVE Expand(_)
\* the first loop of load_docs
Expand(data_sources) == IF data_sources = <<>> THEN <<>> ELSE ExpandOne(Head(data_sources)) \o Expand(Tail(data_sources))

\* set(source_document_files)
set_of(files) == {files[i] : i \in DOMAIN files}

\* isinstance(file_path, str) and str(file_path).lower().startswith("http")
IsUrl(item) == item[1] = "str" /\ item[2] = URL

\* Path(file_path).resolve().suffix.lower()
suffix(item) == IF resolve(str(item)) = "/docs/A.pdf" THEN ".pdf" ELSE IF resolve(str(item)) = "/docs/talk.mp3" THEN ".mp3" ELSE IF resolve(str(item)) = "/gone.txt" THEN ".txt" ELSE ""

\* what the extractor chosen for an item can hand back: "docs" (raw
\* documents), "empty" (an empty list, also after a caught error), "none"
\* (transcribe_audio falls off the end of its except block and returns None);
\* "unsupported": no extractor is called and the list stays empty
ExtractOutcomes(item) ==
    IF IsUrl(item) THEN {"docs", "empty"}
    ELSE IF suffix(item) \in {".pdf", ".pptx", ".docx"} THEN (IF is_file(resolve(str(item))) THEN {"docs", "empty"} ELSE {"empty"})
    ELSE IF suffix(item) \in {".mp4", ".mp3", ".wav", ".m4a", ".avi", ".mov"} THEN {"docs", "empty", "none"}
    ELSE {"unsupported"}

raw_documents(item, outcome) == IF outcome = "docs" THEN <<Document(str(item), [source |-> str(item)])>> ELSE <<>>

\* the chunks RecursiveCharacterTextSplitter cuts one raw document into: the
\* smaller the chunk size, the more chunks
Pieces(chunk_size) == IF chunk_size >= 1000 THEN 2 ELSE 3

\* split_docs (__chunk_documents): the chunks of the raw documents
split_docs(raw, chunk_size, chunk_overlap) == IF raw = <<>> THEN <<>> ELSE [i \in 1..Pieces(chunk_size) |-> Document(<<raw[1].page_content, chunk_size, chunk_overlap, i>>, raw[1].metadata)]

\* the source path the loader saves the chunks under: DocLoader uses
\* source_path, DocumentImporter uses filename_lower (the lower-cased URL, or
\* the lower-cased name of the resolved file)
filename_lower(item) == IF IsUrl(item) THEN "http://h:80/p" ELSE IF resolve(str(item)) = "/docs/A.pdf" THEN "a.pdf" ELSE IF resolve(str(item)) = "/docs/talk.mp3" THEN "talk.mp3" ELSE "gone.txt"

save_path(loader, item) == IF loader = "DocLoader" THEN str(item) ELSE filename_lower(item)

Loaders == {"DocLoader", "DocumentImporter"}

\* the chunking parameters the loaders are constructed with
LoaderCfgs == {<<1000, 200>>}

\* the non-empty source lists given to load_docs
RECURSIVE Lists(_)
Lists(n) == IF n = 0 THEN {<<>>} ELSE Lists(n - 1) \cup {Append(l, x) : l \in {m \in Lists(n - 1) : Len(m) = n - 1}, x \in Inputs}

SourceLists == Lists(MaxSources) \ {<<>>}

\* a loader is constructed and load_docs is called on it: the source list is
\* expanded and deduplicated. The loaders of one behaviour are constructed
\* with the same settings (class, chunking parameters, use_cache).
StartLoad(loader, data_sources, cfg, use_cache) ==
    /\ NoJob
    /\ job.loader = "none" \/ (job.loader = loader /\ job.chunk_size = cfg[1] /\ job.chunk_overlap = cfg[2] /\ job.use_cache = use_cache)
    /\ \A w \in DOMAIN writers : writers[w] = IdleWriter
    /\ job' = [status |-> "loading", loader |-> loader, chunk_size |-> cfg[1], chunk_overlap |-> cfg[2], use_cache |-> use_cache, listed |-> Len(Expand(data_sources)), todo |-> set_of(Expand(data_sources)), documents |-> <<>>, done |-> {}]
    /\ UNCHANGED <<cache, writers, produced, hits>>
    /\ UNCHANGED <<engineVars, runVars, live>>

\* what load_doc does when save_documents raises: the failure is logged
OnSaveFailure_Raise == "raised"

OnSaveFailure == "loading"

\* `if self.__use_cache and split_documents:` -- the chunks are written to the
\* cache only when caching is on and there is at least one chunk
save_wanted_AnyResult(use_cache, split_documents) == use_cache

save_wanted(use_cache, split_documents) == use_cache /\ split_documents # <<>>

\* one load_doc call, as a record of what it did: the status of the job
\* after it, how the chunks were obtained, the chunks, the cache write
LoadResult(item, lookupOk, outcome, saveOk) ==
    LET cached == IF job.use_cache THEN get_cached_documents(cache, str(item), job.chunk_size, job.chunk_overlap, lookupOk) ELSE NoDocuments
        hit == cached.found /\ cached.documents # <<>>
        lookup == IF ~job.use_cache THEN "skipped" ELSE IF ~lookupOk THEN "failed" ELSE IF hit THEN "hit" ELSE "miss"
        chunks == split_docs(raw_documents(item, outcome), job.chunk_size, job.chunk_overlap)
        via == IF outcome = "unsupported" THEN "none" ELSE "extractor"
    IN IF cached.raised THEN [status |-> "raised", lookup |-> lookup, via |-> "none", outcome |-> "-", chunks |-> <<>>, saved |-> "skipped"]
       ELSE IF hit THEN [status |-> "loading", lookup |-> lookup, via |-> "cache", outcome |-> "-", chunks |-> cached.documents, saved |-> "skipped"]
       ELSE IF outcome = "none" THEN [status |-> "raised", lookup |-> lookup, via |-> via, outcome |-> outcome, chunks |-> <<>>, saved |-> "skipped"]
       ELSE IF ~save_wanted(job.use_cache, chunks) THEN [status |-> "loading", lookup |-> lookup, via |-> via, outcome |-> outcome, chunks |-> chunks, saved |-> "skipped"]
       ELSE IF saveOk THEN [status |-> "loading", lookup |-> lookup, via |-> via, outcome |-> outcome, chunks |-> chunks, saved |-> "ok"]
       ELSE [status |-> OnSaveFailure, lookup |-> lookup, via |-> via, outcome |-> outcome, chunks |-> chunks, saved |-> "failed"]

\* load_doc for one item of the set, and the extend of the documents with
\* what it returned; after the last item load_docs returns
LoadDoc(item, lookupOk, outcome, saveOk) ==
    /\ job.status = "loading"
    /\ item \in job.todo
    /\ outcome \in ExtractOutcomes(item)
    /\ job.use_cache \/ (lookupOk /\ saveOk)
    /\ LET r == LoadResult(item, lookupOk, outcome, saveOk)
           key == save_path(job.loader, item)
           left == job.todo \ {item}
       IN /\ job' = [job EXCEPT !.status = IF r.status = "raised" THEN "raised" ELSE IF left = {} THEN "returned" ELSE "loading",
                                !.todo = IF r.status = "raised" THEN @ ELSE left,
                                !.documents = IF r.status = "raised" THEN @ ELSE @ \o r.chunks,
                                !.done = @ \cup {[item |-> item, lookup |-> r.lookup, via |-> r.via, outcome |-> r.outcome, chunks |-> r.chunks, saved |-> r.saved]}]
          /\ cache' = IF r.saved = "ok" THEN Upsert(cache, SaveFound(cache, key, job.chunk_size, job.chunk_overlap), key, r.chunks, job.chunk_size, job.chunk_overlap) ELSE cache
          /\ produced' = IF r.saved = "ok" THEN produced \cup {[item |-> item, chunk_size |-> job.chunk_size, chunk_overlap |-> job.chunk_overlap, chunks |-> r.chunks]} ELSE produced
    /\ UNCHANGED <<writers, hits>>
    /\ UNCHANGED <<engineVars, runVars, live>>

\* similarity_search(query, k): the k most similar documents of the store,
\* all of them if it holds fewer
similarity_search_All(store, k) == store

similarity_search(store, k) == SubSeq(store, 1, IF k < Len(store) THEN k ELSE Len(store))

\* retrieve_context on a Retriever built from the documents of the loader:
\* the second component of what it returns
retrieve_context_Reraise(store, k, ok) == IF ok THEN similarity_search(store, k) ELSE <<"raised">>

retrieve_context(store, k, ok) == IF ok THEN similarity_search(store, k) ELSE <<>>

Search(k, ok) ==
    /\ hits.built
    /\ hits' = [hits EXCEPT !.called = TRUE, !.k = k, !.failed = ~ok, !.docs = retrieve_context(hits.store, k, ok)]
    /\ UNCHANGED <<cache, writers, job, produced>>
    /\ UNCHANGED <<engineVars, runVars, live>>

\* Retriever.__init__: a new InMemoryVectorStore, and the documents added to it
add_documents_Twice(documents) == documents \o documents

add_documents(documents) == documents

\* load_docs has returned: a Retriever is constructed from the documents of
\* the loader (Retriever.__init__ adds them to its vector store) and the
\* loader is dropped; after a load_docs that raised there is no Retriever
Collect ==
    /\ job.status \in {"returned", "raised"}
    /\ hits' = IF job.status = "returned" THEN [NoSearch EXCEPT !.built = TRUE, !.store = add_documents(job.documents)] ELSE NoSearch
    /\ job' = [job EXCEPT !.status = "idle", !.listed = 0, !.todo = {}, !.documents = <<>>, !.done = {}]
    /\ UNCHANGED <<cache, writers, produced>>
    /\ UNCHANGED <<engineVars, runVars, live>>

\* the Retriever is dropped
Drop ==
    /\ hits.built
    /\ hits' = NoSearch
    /\ UNCHANGED <<cache, writers, job, produced>>
    /\ UNCHANGED <<engineVars, runVars, live>>

\* the cache under its direct callers
CacheNext ==
    \/ \E w \in 1..MaxWriters : \E sp \in PutSources : \E docs \in PutDocs : \E cfg \in Cfgs : SaveQuery(w, sp, docs, cfg)
    \/ \E w \in 1..MaxWriters : \E ok \in BOOLEAN : SaveCommit(w, ok)
    \/ \E w \in 1..MaxWriters : SaveReturn(w)
    \/ \E arg \in ClearArgs : \E ok \in BOOLEAN : Invalidate(arg, ok)

CacheSpec == Init /\ [][CacheNext]_vars

\* the loaders, the cache they use and the retriever built from what they load
IngestNext ==
    \/ \E loader \in Loaders : \E l \in SourceLists : \E cfg \in LoaderCfgs : \E uc \in BOOLEAN : StartLoad(loader, l, cfg, uc)
    \/ \E item \in job.todo : \E lookupOk \in BOOLEAN : \E outcome \in {"docs", "empty", "none", "unsupported"} : \E saveOk \in BOOLEAN : LoadDoc(item, lookupOk, outcome, saveOk)
    \/ \E k \in 0..MaxK : \E ok \in BOOLEAN : Search(k, ok)
    \/ Collect
    \/ Drop
    \/ \E arg \in ClearArgs : \E ok \in BOOLEAN : Invalidate(arg, ok)

IngestSpec == Init /\ [][IngestNext]_vars

\* ------------------------------------------------------- history of a run
\* the nodes the run has entered, in order: the executed ones, then the one
\* at pc (END included)
Visited == [i \in 1..(Len(path) + 1) |-> IF i <= Len(path) THEN path[i].node ELSE pc]

RECURSIVE Appended(_)
\* turns appended by the first i executed nodes
Appended(i) == IF i = 0 THEN 0 ELSE path[i].n + Appended(i - 1)

\* the run is past START: the graph was built when it was started
Started == pc \in NodeNames \cup {END}

\* the turns this run appended to its input
NewTurns == SubSeq(turns, Len(input) + 1, Len(turns))

\* a response of this run carried a tool-call request
RequestedRetrieval == \E i \in 1..Len(NewTurns) : NewTurns[i].tool_calls > 0

Edges == { <<"generate_query_or_respond", "retrieve">>, <<"generate_query_or_respond", END>>, <<"retrieve", "generate_answer">>, <<"retrieve", "rewrite_question">>, <<"rewrite_question", "generate_query_or_respond">>, <<"generate_answer", END>> }

\* ------------------------------------------------------------------ claims

\* C1: a generate_query_or_respond step that returns appends the response as
\* exactly one new assistant turn; the next state is retrieve if and only if
\* that response carries a tool-call request, otherwise END, and a run that
\* ended right after generate_query_or_respond has that response (no tool
\* call) as its final turn.
C1_AskOrRespond ==
    /\ [][(pc = "generate_query_or_respond" /\ error = "none" /\ path' # path) =>
            /\ Len(turns') = Len(turns) + 1
            /\ SubSeq(turns', 1, Len(turns)) = turns
            /\ Last(turns').role = "assistant"
            /\ Last(path').node = "generate_query_or_respond"
            /\ (pc' = "retrieve") <=> (Last(turns').tool_calls > 0)
            /\ (Last(turns').tool_calls = 0) => (pc' = END)]_vars
    /\ [](pc = END /\ Last(path).node = "generate_query_or_respond" =>
            /\ Last(turns).role = "assistant"
            /\ Last(turns).tool_calls = 0)

C1_Witness == pc = "retrieve" /\ Len(path) = 1 /\ Last(turns).role = "assistant" /\ Last(turns).tool_calls = 1

\* C2: a run enters generate_query_or_respond first, and every pair of
\* consecutively entered states is one of the edges: AskOrRespond -> Retrieve
\* or End, Retrieve -> Answer (graded relevant) or Rewrite (graded not
\* relevant), Rewrite -> AskOrRespond, Answer -> End.
C2_OnlyEdges ==
    Started =>
      /\ Visited[1] = "generate_query_or_respond"
      /\ \A i \in 1..Len(path) :
           /\ <<Visited[i], Visited[i + 1]>> \in Edges
           /\ path[i].node = "retrieve" => ((Visited[i + 1] = "generate_answer") <=> (path[i].grade = "relevant"))
           /\ path[i].node = "retrieve" => ((Visited[i + 1] = "rewrite_question") <=> (path[i].grade = "not_relevant"))

C2_Witness == pc = END /\ Len(path) = 6 /\ path[6].node = "generate_answer" /\ path[3].node = "rewrite_question" /\ mode = "stream"

\* C3: in a run whose generation calls all returned and never requested
\* retrieval, the run is at END after exactly one generate_query_or_respond
\* step: one generation call, one turn appended, no other state entered.
C3_NoRetrieval ==
    (Started /\ error = "none" /\ llmCalls >= 1 /\ ~RequestedRetrieval) =>
      /\ pc = END
      /\ llmCalls = 1
      /\ Len(turns) = Len(input) + 1
      /\ Len(path) = 1
      /\ path[1].node = "generate_query_or_respond"

C3_Witness == pc = END /\ Len(path) = 1 /\ llmCalls = 1 /\ ~RequestedRetrieval /\ mode = "invoke"

\* C4: when the first retrieval of a run is graded not relevant, every entry
\* into generate_answer comes after a complete rewrite_question ->
\* generate_query_or_respond -> retrieve cycle that follows that retrieval.
C4_AnswerAfterCycle ==
    (Len(path) >= 2 /\ path[2].node = "retrieve" /\ path[2].grade = "not_relevant") =>
      \A i \in 1..Len(Visited) :
        Visited[i] = "generate_answer" =>
          \E j \in 3..(i - 3) :
            /\ Visited[j] = "rewrite_question"
            /\ Visited[j + 1] = "generate_query_or_respond"
            /\ Visited[j + 2] = "retrieve"

C4_Witness == Len(path) = 6 /\ path[2].grade = "not_relevant" /\ path[5].grade = "relevant" /\ path[6].node = "generate_answer" /\ pc = END

\* C5: turns are append-only during a run: every step of a running flow
\* leaves the turns it found as a prefix of the turns it leaves, and the
\* input turns are a prefix of the turns of the run at all times.
C5_AppendOnly ==
    /\ [][Running => IsPrefix(turns, turns')]_vars
    /\ [](pc # Idle => IsPrefix(input, turns))

C5_Witness == pc = END /\ Len(input) = 3 /\ Len(turns) = 7 /\ turns[5].role = "tool" /\ turns[6].role = "user"

\* what a stream has yielded so far: the node names, and the turns
YieldedNodes == [i \in 1..Len(yielded) |-> yielded[i][1]]

YieldedTurns == [i \in 1..Len(yielded) |-> yielded[i][2]]

\* C6 as stated: the pairs yielded by stream_chat name exactly the states
\* executed and contain every turn appended to the input, each exactly once
\* and in order, including every tool-result turn of a Retrieve step.
C6_StreamYieldsEveryTurn ==
    mode = "stream" =>
      /\ YieldedNodes = [i \in 1..Len(path) |-> path[i].node]
      /\ YieldedTurns = NewTurns

\* C6 as amended: the pairs yielded by stream_chat name exactly the states
\* executed, in order, and carry for each state the last turn that state
\* appended; they contain every appended turn exactly once when no Retrieve
\* step of the run executed more than one tool call.
C6_StreamYieldsLatestTurn ==
    mode = "stream" =>
      /\ YieldedNodes = [i \in 1..Len(path) |-> path[i].node]
      /\ \A i \in 1..Len(path) : yielded[i][2] = turns[Len(input) + Appended(i)]
      /\ Len(turns) = Len(input) + Appended(Len(path))
      /\ (\A i \in 1..Len(path) : path[i].n = 1) => YieldedTurns = NewTurns

C6_Witness == mode = "stream" /\ pc = END /\ Len(path) = 3 /\ path[2].n = 2 /\ turns[Len(input) + 2].tool_call_id = 1 /\ turns[Len(input) + 3].tool_call_id = 2

\* C7: every invoke and every stream call terminates: a run in flight
\* eventually leaves the decision flow (it reaches END; a run that raises is
\* counted as terminated as well).
C7_Terminates == Running ~> ~Running

\* the initialize outcomes "empty source list" and "zero chunks produced"
NoChunkOutcomes == {"empty_sources", "no_chunks"}

\* C8 as stated: initialize with an empty source list or with sources that
\* produce zero chunks raises, and a run started after such a failed
\* initialize never executes a state of the decision flow.
C8_NoRunAfterFailedInit ==
    /\ lastInit.outcome \in NoChunkOutcomes => lastInit.result # "ok"
    /\ runInit \in NoChunkOutcomes => (~Started /\ path = <<>>)

\* C8 as amended: initialize with an empty source list or with sources that
\* produce zero chunks raises ValueError, and a run started after such a
\* failed initialize on an engine for which no initialize has constructed a
\* retriever fails with ValueError without executing a state and without a
\* generation call.
C8_NoRunOnFreshEngine ==
    /\ lastInit.outcome \in NoChunkOutcomes => lastInit.result = "ValueError"
    /\ (runInit \in NoChunkOutcomes /\ retriever = None) =>
         /\ workflow_graph = None
         /\ pc = START
         /\ error = "ValueError"
         /\ path = <<>>
         /\ llmCalls = 0

C8_Witness == runInit = "no_chunks" /\ lastInit.result = "ValueError" /\ retriever = None /\ pc = START /\ error = "ValueError" /\ mode = "stream"

\* the tool-result turns of this run
ToolTurns == { i \in 1..Len(NewTurns) : NewTurns[i].role = "tool" }

\* the retriever was called in this run and its backend threw on every call
BackendAlwaysThrew == ToolTurns # {} /\ \A i \in ToolTurns : NewTurns[i].content = ErrorText

\* a turn whose content describes an error
DescribesError(t) == t.content \in {ErrorText, "reports_error"}

\* C9: when the retriever backend throws on every call, the final turn of
\* the sequence an invoke returns contains an error description.
C9_ErrorInFinalTurn == (pc = END /\ BackendAlwaysThrew) => DescribesError(Last(turns))

\* C10: when a call of the text-generation capability fails, the run does
\* not raise: it ends with a terminal error turn appended to the turns.
C10_FailureBecomesTurn == llmFailed => (error = "none" /\ pc = END /\ DescribesError(Last(turns)))

\* the load_doc call a step made, as recorded by the job
Loaded == job'.done \ job.done

\* an earlier ingestion of the source of d, under the chunking parameters of
\* the job, with caching enabled, written back, and no clear_cache since
EarlierIngestions(d) == {q \in produced : q.item = d.item /\ q.chunk_size = job.chunk_size /\ q.chunk_overlap = job.chunk_overlap}

\* C11: with caching enabled, when an earlier ingestion of a source under
\* the same chunking parameters produced at least one chunk and no
\* clear_cache happened since, a second ingestion of the source returns the
\* same chunks from the cache, without invoking an extractor. (Read in the
\* claim's favour: the write-back of the earlier ingestion did not fail and
\* the lookup of the second does not fail.)
C11_SecondIngestionFromCache ==
    [][\A d \in Loaded : \A q \in EarlierIngestions(d) :
         (job.use_cache /\ d.lookup # "failed") => (d.via = "cache" /\ d.chunks = q.chunks)]_vars

\* source strings (with and without ':') and integers to key
KeySources == {"a", "a1", "a:1", "a:1:2"}

KeyInts == {-1, 1, 2, 11}

Triples == KeySources \X KeyInts \X KeyInts

KeysOfTriples == {generate_source_hash(t[1], t[2], t[3]) : t \in Triples}

\* C12: the cache key is an injective function of (source, chunk_size,
\* chunk_overlap): triples that differ in a component have different keys,
\* also for sources containing ':'; so every record of the table carries
\* the key of its own columns and no two records share a key.
C12_KeyInjective ==
    /\ Cardinality(KeysOfTriples) = Cardinality(Triples)
    /\ \A r \in cache : r.source_hash = generate_source_hash(r.source_path, r.chunk_size, r.chunk_overlap)
    /\ \A r1, r2 \in cache : (r1.source_hash = r2.source_hash) <=> (<<r1.source_path, r1.chunk_size, r1.chunk_overlap>> = <<r2.source_path, r2.chunk_size, r2.chunk_overlap>>)

C12_Witness == \E r1, r2 \in cache : r1.source_path = URL /\ r2.source_path = URL /\ r1.chunk_size # r2.chunk_size /\ r1.chunk_overlap = r2.chunk_overlap /\ r1.source_hash # r2.source_hash

\* the source paths the loaders look up
LookupPaths == {"/docs/A.pdf", "/docs/talk.mp3", URL, "gone.txt"}

\* C13: get_cached_documents never raises: when the lookup fails it hands
\* back a miss, whatever the table holds, and the load_doc call that made
\* the lookup goes on to the extractor of the source and returns the chunks
\* split from what the extractor gave.
C13_LookupFailureIsMiss ==
    /\ \A p \in LookupPaths : \A cfg \in Cfgs : get_cached_documents(cache, p, cfg[1], cfg[2], FALSE) = NoDocuments
    /\ \A d \in job.done : d.lookup = "failed" =>
         /\ d.via # "cache"
         /\ d.outcome \in ExtractOutcomes(d.item)
         /\ d.chunks = split_docs(raw_documents(d.item, d.outcome), job.chunk_size, job.chunk_overlap)

C13_Witness == job.status = "returned" /\ job.loader = "DocLoader" /\ \E d \in job.done : d.lookup = "failed" /\ d.via = "extractor" /\ d.chunks # <<>> /\ \E r \in cache : r.source_path = str(d.item) /\ d.saved = "failed"


\* the writers whose save_documents commits in this step, and the key of one
Committing == {w \in DOMAIN writers : writers[w].pc = "queried" /\ writers'[w].pc = "done" /\ writers'[w].result = "ok"}

KeyOf(me) == generate_source_hash(me.source_path, me.chunk_size, me.chunk_overlap)

KeysIn(table) == {r.source_hash : r \in table}

\* C14: save_documents is an upsert by key. In every step of the cache, for
\* every key: the table holds at most one record with the key afterwards,
\* whose document_count is the number of documents stored; the record changes
\* only by being deleted or by a save that commits, and after a save commits
\* a lookup of its key returns exactly the documents of that save (the
\* earlier ones are replaced, not extended).
C14_UpsertByKey ==
    [][/\ \A h \in KeysIn(cache) \cup KeysIn(cache') :
            /\ Cardinality(RowsOf(cache', h)) <= 1
            /\ \A r \in RowsOf(cache', h) : r.document_count = Len(r.split_documents)
            /\ \/ RowsOf(cache', h) = RowsOf(cache, h)
               \/ RowsOf(cache', h) = {} /\ Committing = {}
               \/ \E w \in Committing : KeyOf(writers[w]) = h
       /\ \A w \in Committing :
            get_cached_documents(cache', writers[w].source_path, writers[w].chunk_size, writers[w].chunk_overlap, TRUE) = [found |-> TRUE, documents |-> writers[w].documents, raised |-> FALSE]]_vars

\* a save has replaced the one document another save had stored under the
\* same key by its own two documents
C14_Witness ==
    \E w1, w2 \in DOMAIN writers :
        /\ writers[w1].pc = "done" /\ writers[w1].result = "ok" /\ writers[w1].found = "none" /\ writers[w1].documents = <<D1>>
        /\ writers[w2].pc = "done" /\ writers[w2].result = "ok" /\ writers[w2].found = "row" /\ writers[w2].documents = <<D2, D1>>
        /\ KeyOf(writers[w1]) = KeyOf(writers[w2])
        /\ \E r \in cache : r.source_hash = KeyOf(writers[w2]) /\ r.document_count = 2 /\ deserialize_documents(r.split_documents) = <<D2, D1>>
        /\ Cardinality(RowsOf(cache, KeyOf(writers[w2]))) = 1


\* two save_documents calls on the same key that have both finished, neither
\* stopped by a failure of the storage itself or by a deletion of the record
SameKeyPairs == {p \in (DOMAIN writers) \X (DOMAIN writers) : p[1] # p[2] /\ writers[p[1]].pc = "done" /\ writers[p[2]].pc = "done" /\ KeyOf(writers[p[1]]) = KeyOf(writers[p[2]]) /\ {writers[p[1]].result, writers[p[2]].result} \cap {"StorageError", "StaleDataError"} = {}}

\* C15: two writers that save the same key concurrently, interleaved anywhere
\* between the existence check and the commit, both complete without error,
\* and the one record their key has is the write of one of them.
C15_ConcurrentPutsBothSucceed ==
    \A p \in SameKeyPairs :
        /\ writers[p[1]].result = "ok"
        /\ writers[p[2]].result = "ok"
        /\ \A r \in RowsOf(cache, KeyOf(writers[p[1]])) : deserialize_documents(r.split_documents) \in {writers[p[1]].documents, writers[p[2]].documents}


\* the records of one source, whatever the chunking parameters
RowsOfSource(table, source_path) == {r \in table : r.source_path = source_path}

\* C16: clear_cache(s), for every string s, removes exactly the records of
\* source s (under every chunking configuration) and leaves the records of
\* every other source as they were; clear_cache() removes all records.
C16_InvalidateExactlyOneSource ==
    /\ clear_cache(cache, NoSource) = {}
    /\ \A arg \in ClearArgs \ {NoSource} : clear_cache(cache, arg) = cache \ RowsOfSource(cache, arg[1])


\* the chunks sub appear, in order and side by side, in the documents
Contains(documents, sub) == \E i \in 0..(Len(documents) - Len(sub)) : SubSeq(documents, i + 1, i + Len(sub)) = sub

\* the load_doc calls of the job whose extractor failed or had nothing to
\* give, or whose item no extractor takes
FailedLoads == {d \in job.done : d.via # "cache" /\ d.outcome # "docs"}

SaveFailures == {d \in Loaded : d.saved = "failed"}

\* C18: a cache write failure during ingestion is absorbed. When
\* save_documents fails for a source, load_doc still returns the freshly
\* split chunks of the source (they are appended to the documents),
\* load_docs raises nothing and goes on with the remaining sources (or
\* returns, if none remain), and the cache is as it was before the write.
C18_SaveFailureAbsorbed ==
    [][\A d \in SaveFailures :
         /\ d.chunks # <<>>
         /\ d.chunks = split_docs(raw_documents(d.item, d.outcome), job.chunk_size, job.chunk_overlap)
         /\ job'.documents = job.documents \o d.chunks
         /\ job'.status = IF job.todo = {d.item} THEN "returned" ELSE "loading"
         /\ job'.todo = job.todo \ {d.item}
         /\ cache' = cache]_vars

\* a save failed for one source, a later source of the same call was loaded
\* and saved, and load_docs returned the chunks of both
C18_Witness ==
    /\ job.status = "returned"
    /\ \E d1, d2 \in job.done :
         /\ d1.saved = "failed" /\ d2.saved = "ok" /\ d1.item # d2.item
         /\ Contains(job.documents, d1.chunks \o d2.chunks)
         /\ RowsOf(cache, generate_source_hash(save_path(job.loader, d1.item), job.chunk_size, job.chunk_overlap)) = {}


\* the items one entry of the source list stands for: the immediate file
\* members of a directory, the file itself, or the entry as it was given
ItemsOf(src_pth) ==
    IF is_dir(resolve(src_pth)) THEN {PathItem(iterdir(resolve(src_pth))[i]) : i \in {j \in DOMAIN iterdir(resolve(src_pth)) : is_file(iterdir(resolve(src_pth))[j])}}
    ELSE IF is_file(resolve(src_pth)) THEN {PathItem(resolve(src_pth))}
    ELSE {StrItem(src_pth)}

ItemsOfList(data_sources) == UNION {ItemsOf(data_sources[i]) : i \in DOMAIN data_sources}

\* the items the load_doc calls of the job were made for
DoneItems(j) == {d.item : d \in j.done}

\* the documents that came from an item
Occurrences(documents, item) == Cardinality({i \in DOMAIN documents : documents[i].metadata.source = str(item)})

\* C19: one load_docs call expands its source list (a directory to its
\* immediate file members only, an existing file to itself, a nonexistent
\* path or a URL as given) and removes duplicates: each distinct item is
\* loaded once, also when it is listed several times or reachable both
\* directly and through its directory, and its chunks are in the documents
\* once. (When load_docs returns every item has been loaded.)
C19_ExpandedAndDeduplicated ==
    /\ [](/\ \A d1, d2 \in job.done : d1.item = d2.item => d1 = d2
          /\ \A i1, i2 \in job.todo \cup DoneItems(job) : resolve(str(i1)) = resolve(str(i2)) => i1 = i2
          /\ job.status # "raised" => job.todo \cap DoneItems(job) = {}
          /\ job.status = "returned" => job.todo = {}
          /\ \A d \in job.done : Occurrences(job.documents, d.item) = Len(d.chunks) /\ Contains(job.documents, d.chunks))
    /\ [][/\ (job.status = "idle" /\ job'.status = "loading") =>
               /\ \E l \in SourceLists : job'.todo = ItemsOfList(l) /\ job'.listed = Len(Expand(l))
               /\ job'.done = {} /\ job'.documents = <<>>
          /\ (job.status = "loading") =>
               /\ job'.todo \cup DoneItems(job') = job.todo \cup DoneItems(job)
               /\ Cardinality(Loaded) = 1]_vars

\* /docs and docs/A.pdf were both listed: three entries after expansion, two
\* items loaded, and the chunks of A.pdf are in the documents once
C19_Witness ==
    /\ job.status = "returned"
    /\ job.listed = 3
    /\ DoneItems(job) = {PathItem("/docs/A.pdf"), PathItem("/docs/talk.mp3")}
    /\ \E d \in job.done : d.item = PathItem("/docs/A.pdf") /\ d.outcome = "docs" /\ Len(d.chunks) = 2 /\ Occurrences(job.documents, d.item) = 2


\* C20 as stated: retrieve_context(query, k) never returns more than k
\* documents, and returns fewer than k only when the vector store holds
\* fewer than k documents.
C20_FewerOnlyWhenIndexSmall ==
    hits.called =>
        /\ Len(hits.docs) <= hits.k
        /\ Len(hits.docs) < hits.k => Len(hits.store) < hits.k

\* C20, amended: retrieve_context(query, k) never returns more than k
\* documents, and returns fewer than k only when the vector store holds
\* fewer than k documents (then it returns as many as the store holds) or
\* when the similarity call failed (then it returns none).
C20_FewerOnlyWhenIndexSmallOrFailed ==
    hits.called =>
        /\ Len(hits.docs) <= hits.k
        /\ ~hits.failed => Len(hits.docs) = (IF Len(hits.store) < hits.k THEN Len(hits.store) ELSE hits.k)
        /\ hits.failed => hits.docs = <<>>

\* the store holds at least k documents, the similarity call failed, and
\* retrieve_context returned no document
C20_Witness == hits.called /\ hits.failed /\ hits.k >= 1 /\ Len(hits.store) >= hits.k /\ hits.docs = <<>>


\* C21: retrieve_context returns an empty result, not an error, when the
\* vector store is empty or the similarity call fails: whatever it is asked,
\* it hands its caller a list of documents of the store, never an exception.
C21_EmptyNotError ==
    hits.called =>
        /\ (hits.failed \/ hits.store = <<>>) => hits.docs = <<>>
        /\ \A i \in DOMAIN hits.docs : \E j \in DOMAIN hits.store : hits.docs[i] = hits.store[j]

\* the similarity call failed on a store holding more than k documents, and
\* the caller got the empty list
C21_Witness == hits.called /\ hits.failed /\ Len(hits.store) > hits.k /\ hits.docs = <<>>


\* the Workflow() constructions made side by side, in order
Constructions == {1, 2}

\* Workflow.__new__: the first construction creates the instance and keeps
\* it in cls._instance, every later construction returns the one kept
Workflow_new(_instance, n) == IF _instance = None THEN n ELSE _instance

RECURSIVE ClassInstance(_)
\* cls._instance after the first n constructions
ClassInstance(n) == IF n = 0 THEN None ELSE Workflow_new(ClassInstance(n - 1), n)

\* the object the n-th construction hands back
InstanceOf(n) == ClassInstance(n)

\* the retriever, capability set, bound capability and compiled graph seen
\* through the n-th construction: those of the engine if it is the object
\* the engine's calls are made on, those of an untouched object otherwise
EngineOf(n) == IF InstanceOf(n) = InstanceOf(1) THEN <<retriever, tools, llm_with_tools, workflow_graph>> ELSE <<None, <<>>, Unbound, None>>

\* C22: engine instances constructed side by side are independent: an
\* initialize or build_graph that changes the retriever, the capability set
\* or the compiled graph of one instance changes those of no other instance.
C22_InstancesIndependent ==
    [][\A n1, n2 \in Constructions : (n1 # n2 /\ EngineOf(n1)' # EngineOf(n1)) => EngineOf(n2)' = EngineOf(n2)]_vars


\* the load_docs call that has returned is a repetition: a DocLoader with
\* caching enabled (the loader of Workflow.initialize) has loaded sources
\* that were all ingested and written back before, under the same chunking
\* parameters and with no clear_cache since, and no lookup failed
Repeated ==
    /\ job.status = "returned"
    /\ job.loader = "DocLoader"
    /\ job.use_cache
    /\ job.done # {}
    /\ \A d \in job.done : d.lookup # "failed" /\ EarlierIngestions(d) # {}

\* C23: initialize is idempotent with respect to the index. When the same
\* sources are loaded again under the same chunking parameters and the
\* Retriever is built from what was loaded, the vector store holds exactly
\* the chunks the earlier ingestion of each source produced, each once (no
\* chunk is indexed twice), so a search ranks the same chunks.
C23_ReindexSameChunks ==
    [][(Repeated /\ hits'.built) =>
         /\ \A d \in job.done : \A q \in EarlierIngestions(d) :
              /\ Contains(hits'.store, q.chunks)
              /\ Occurrences(hits'.store, d.item) = Len(q.chunks)
         /\ \A i \in DOMAIN hits'.store : \E d \in job.done : hits'.store[i].metadata.source = str(d.item)]_vars

\* two sources that were ingested before have been loaded again, both from
\* the cache, and the Retriever is about to be built from them
C23_Witness == Repeated /\ Cardinality(job.done) >= 2 /\ \A d \in job.done : d.via = "cache" /\ d.chunks # <<>>


\* every response of the run so far requested retrieval, every retrieval was
\* graded not relevant, and no capability call failed
AlwaysRetrieveNeverRelevant ==
    /\ Started
    /\ error = "none"
    /\ \A i \in 1..Len(NewTurns) : NewTurns[i].role = "assistant" => NewTurns[i].tool_calls > 0
    /\ \A i \in 1..Len(path) : path[i].node = "retrieve" => path[i].grade = "not_relevant"

\* the rewrite_question steps the run has executed
Rewrites == Cardinality({i \in 1..Len(path) : path[i].node = "rewrite_question"})

\* the node the cycle is at after n steps
CycleNode(n) == IF n % 3 = 0 THEN "generate_query_or_respond" ELSE IF n % 3 = 1 THEN "retrieve" ELSE "rewrite_question"

\* C24: the engine puts no maximum on the retrieve -> rewrite_question ->
\* generate_query_or_respond cycle: a run in which every response requests
\* retrieval and every retrieval is graded not relevant is, after any number
\* of steps, still in the cycle and not at END, with one rewrite_question
\* step executed for every three steps.
C24_NoLoopBound ==
    AlwaysRetrieveNeverRelevant =>
        /\ pc # END
        /\ pc = CycleNode(Len(path))
        /\ Rewrites = Len(path) \div 3

\* the run is in its third round: two rewrites done, not at END
C24_Witness == AlwaysRetrieveNeverRelevant /\ Rewrites = 2 /\ Len(path) = 6 /\ pc = "generate_query_or_respond" /\ mode = "invoke"


\* the steps of the run that put a question into a prompt
QuestionSteps == {i \in 1..Len(path) : path[i].node \in {"rewrite_question", "generate_answer"}}

\* C25: every rewrite_question step and every generate_answer step, whatever
\* the length of the input history and the number of earlier rewrites, uses
\* the content of the first turn of the turns as its question;
\* rewrite_question appends its reformulation as a new user turn, and that
\* turn is never the question of a later rewrite_question or generate_answer.
C25_QuestionIsFirstTurn ==
    /\ \A i \in QuestionSteps :
         /\ path[i].question = turns[1].content
         /\ path[i].question = input[1].content
    /\ \A i \in 1..Len(path) : path[i].node = "rewrite_question" =>
         /\ turns[Len(input) + Appended(i)] = HumanMessage("rewritten")
         /\ \A j \in QuestionSteps : j > i => path[j].question # turns[Len(input) + Appended(i)].content

\* a three-turn history whose latest user turn is q2: one rewrite, then an
\* answer, both on q1
C25_Witness ==
    /\ pc = END /\ Len(input) = 3 /\ Len(path) = 6
    /\ path[3].node = "rewrite_question" /\ path[3].question = "q1"
    /\ path[6].node = "generate_answer" /\ path[6].question = "q1"
    /\ turns[Len(input) + Appended(3)].content = "rewritten"
    /\ input[3].content = "q2"


\* ------------------------------------------------ initialize during a run
\* an initialize call of some request lands while a run is in flight
InitializeDuringRun == Running /\ \E o \in InitOutcomes : InitializeWithin(MaxInits + 1, o)

\* C26: while a decision-flow run is in flight, a concurrent initialize on
\* the same engine changes nothing the remaining steps of the run use: the
\* retriever held by the graph's Retrieve node and the tool-bound capability
\* called by generate_query_or_respond stay what they were.
C26_RunKeepsItsEngine == [][InitializeDuringRun => (workflow_graph' = workflow_graph /\ llm_with_tools' = llm_with_tools)]_vars


\* ------------------------------------------------------- the tool registry
\* C27: after any number of successful initialize calls the capability set
\* bound to the text-generation capability holds exactly one retriever tool,
\* the one of the most recently built retriever; the registry holds no
\* earlier retriever tool.
C27_OneRetrieverTool == lastInit.outcome = "ok" => (tools = <<retriever>> /\ llm_with_tools = bind_tools(<<retriever>>))


\* ------------------------------------------------- the order of operations
\* C28: build_graph on an engine with no retriever fails with ValueError
\* (and builds no graph), and invoke_chat or stream_chat on an engine whose
\* graph has not been built fails with ValueError before any node runs: no
\* call of the text-generation capability, no retrieval, nothing yielded.
C28_OrderEnforced ==
    /\ retriever = None => (lastBuild \in {"never", "ValueError"} /\ workflow_graph = None)
    /\ (workflow_graph = None /\ pc # Idle) => (pc = START /\ error = "ValueError" /\ llmCalls = 0 /\ path = <<>> /\ yielded = <<>> /\ turns = input)

C28_Witness == retriever = None /\ lastBuild = "ValueError" /\ workflow_graph = None /\ pc = START /\ error = "ValueError" /\ llmCalls = 0 /\ mode = "invoke"


\* --------------------------------------------------- a failed initialize
\* C29: an initialize call that fails, at whichever step, leaves the
\* engine's retriever, capability set, tool-bound capability and compiled
\* graph exactly as they were before the call.
C29_FailedInitializeChangesNothing == [][\A o \in InitOutcomes \ {"ok"} : Initialize(o) => UNCHANGED <<retriever, tools, llm_with_tools, workflow_graph>>]_vars


\* ------------------------------------------------- sources without chunks
\* the load_doc calls the step has just made (one LoadDoc step makes one)
JustLoaded == job'.done \ job.done

\* the rows under the key load_doc looks the item up by
RowsFor(table, item) == RowsOf(table, generate_source_hash(str(item), job.chunk_size, job.chunk_overlap))

====
